---- MODULE Spec2Model ----
(***************************************************************************)
(* reprox (main.go): the reconciliation loop that turns the container list *)
(* into the nginx route table, the self-signed / certbot certificate       *)
(* handling and the config write + reload protocol.                        *)
(*                                                                         *)
(* Three threads of control are modelled:                                  *)
(*   main      - main(): startNginx, docker client, the first updateRoutes,*)
(*               the cron/goroutine set-up, the ticker loop, the deferred  *)
(*               stopNginx;                                                *)
(*   the cycle - one call of updateRoutes, step by step (it runs on main's *)
(*               goroutine; cyc is its program counter);                   *)
(*   the sweep - the goroutine of main.go:98-101 that calls CertbotRun     *)
(*               once, five seconds after it was spawned.                  *)
(* The cron job of main.go:93-96 is registered but the cron is never       *)
(* started (there is no c.Start()), so it contributes no step.             *)
(***************************************************************************)
EXTENDS Integers, Sequences, FiniteSets, TLC

\* ------------------------------------------------------------------ bounds

\* The longest container list one ContainerList call returns.
MaxContainers == 2

\* ------------------------------------------------------------ input values

HostA == "a.example.com"
HostB == "b.example.com"
Hosts == {HostA, HostB}

\* Container names are strings, modelled as sequences of characters.
NameWeb1 == <<"/", "w", "1">>
NameWeb2 == <<"/", "w", "2">>
NameWeb3 == <<"w", "3">>

\* container.Labels: a map from label key to value.
NoLabels == [k \in {} |-> ""]
HostLabel(h) == [k \in {"reprox.host"} |-> h]

\* The containers the docker daemon reports (types.Container: Names, Labels).
Web1 == [Names |-> <<NameWeb1>>, Labels |-> HostLabel(HostA)]
Web2 == [Names |-> <<NameWeb2, NameWeb1>>, Labels |-> HostLabel(HostB)]
Web3 == [Names |-> <<NameWeb3>>, Labels |-> HostLabel(HostA)]
Nameless == [Names |-> <<>>, Labels |-> HostLabel(HostB)]
Unlabelled == [Names |-> <<NameWeb1>>, Labels |-> NoLabels]
EmptyLabel == [Names |-> <<NameWeb2>>, Labels |-> HostLabel("")]

\* The deployments checked: each is the set of container lists the docker
\* daemon answers with during one run of the program (containers come and
\* go, and the daemon's order may change between calls).
Deployments ==
    { { <<>>, <<Web1>>, <<Nameless>>, <<Unlabelled, Web1>>, <<EmptyLabel>> },
      { <<Web1>>, <<Web1, Web2>>, <<Web2, Web1>>, <<Web1, Web2, Nameless>> },
      { <<Web1>>, <<Web1, Web3>>, <<Web3, Web1, Unlabelled>> } }

\* What ContainerList can return when it succeeds, in deployment d.
ContainerLists(d) == { c \in d : Len(c) <= MaxContainers }

\* ------------------------------------------------------------ certificates

CertFiles == {"fullchain.pem", "privkey.pem"}

\* "/etc/letsencrypt/live/" + host + "/" + file
CertPath(host, file) == <<"/etc/letsencrypt/live", host, file>>

Paths == { CertPath(h, f) : h \in Hosts, f \in CertFiles }

\* What a certificate file holds: nothing (no file), self-signed or CA-issued material.
FileKinds == {"none", "self", "trusted"}

NoCerts == [p \in Paths |-> "none"]

\* The certificate directory (a volume) as the process may find it at start:
\* empty, holding an issued pair for one host, or holding a stray key file.
InitialCertDirs ==
    { NoCerts,
      [p \in Paths |-> IF p[2] = HostA THEN "trusted" ELSE "none"],
      [p \in Paths |-> IF p = CertPath(HostB, "privkey.pem") THEN "self" ELSE "none"] }

\* ------------------------------------------------------------------- state

VARIABLES
    docker,        \* the container lists the docker daemon answers with
    mainPc,        \* where main() is: start, client, init, cron, loop, defer, exited
    exit,          \* how the process ends: none, zero, panic, fault
    cancelled,     \* ctx is cancelled (the signal goroutine called cancel())
    stops,         \* number of "nginx -s stop" commands issued
    routesMutex,   \* "free" or "held"
    routes,        \* the global route table
    files,         \* the certificate directory: path -> kind of content
    conf,          \* /etc/nginx/conf.d/apps.conf: [exists, text]
    cyc,           \* where the current updateRoutes call is ("idle": none running)
    newRoutes,     \* its local newRoutes
    idx,           \* its position in the range loop it is in
    err,           \* the error it returned ("nil": none)
    routes0,       \* the route table when the call started
    conf0,         \* the config file when the call started
    ran,           \* what the call has done so far: a set of <<kind, host or outcome>>
    sweepPc,       \* where the CertbotRun goroutine is
    sweepRoutes,   \* the slice header its range loop iterates
    sweepIdx       \* its position in that loop

vars == <<docker, mainPc, exit, cancelled, stops, routesMutex, routes, files, conf,
          cyc, newRoutes, idx, err, routes0, conf0, ran,
          sweepPc, sweepRoutes, sweepIdx>>

mainVars == <<mainPc, exit, stops>>
cycleVars == <<cyc, newRoutes, idx, err, routes0, conf0, ran>>
sweepVars == <<sweepPc, sweepRoutes, sweepIdx>>

NoFile == [exists |-> FALSE, text |-> <<>>]

\* The scheduler states of the design, read off main()'s position.
Sched ==
    CASE mainPc \in {"start", "client"} -> "Starting"
      [] mainPc \in {"init", "cron", "loop"} -> "Running"
      [] mainPc = "defer" -> "Stopping"
      [] OTHER -> "Stopped"

Init ==
    /\ docker \in Deployments
    /\ mainPc = "start"
    /\ exit = "none"
    /\ cancelled = FALSE
    /\ stops = 0
    /\ routesMutex = "free"
    /\ routes = <<>>
    /\ files \in InitialCertDirs
    /\ conf = NoFile
    /\ cyc = "idle"
    /\ newRoutes = <<>>
    /\ idx = 0
    /\ err = "nil"
    /\ routes0 = <<>>
    /\ conf0 = NoFile
    /\ ran = {}
    /\ sweepPc = "none"
    /\ sweepRoutes = <<>>
    /\ sweepIdx = 0

\* ---------------------------------------------------------- pure functions

\* TrimPrefix as strings.TrimLeft: every leading prefix character is dropped.
TrimPrefix_TrimLeft(s, prefix) ==
    LET k == CHOOSE n \in 0..Len(s) :
               /\ \A i \in 1..n : s[i] = prefix
               /\ (n = Len(s) \/ s[n + 1] # prefix)
    IN  SubSeq(s, k + 1, Len(s))

\* strings.TrimPrefix(s, "/"): s without one leading prefix character, else s.
TrimPrefix(s, prefix) ==
    IF Len(s) > 0 /\ s[1] = prefix THEN Tail(s) ELSE s

\* The two `continue` tests of the loop of updateRoutes.
Skipped(container) ==
    \/ Len(container.Names) = 0
    \/ "reprox.host" \notin DOMAIN container.Labels
    \/ container.Labels["reprox.host"] = ""

RouteOf(container) ==
    [Host |-> container.Labels["reprox.host"],
     Upstream |-> TrimPrefix(container.Names[1], "/")]

\* The loop of updateRoutes over containers[i..], appending to acc.
RECURSIVE BuildFrom(_, _, _)
BuildFrom(containers, i, acc) ==
    IF i > Len(containers) THEN acc
    ELSE IF Skipped(containers[i]) THEN BuildFrom(containers, i + 1, acc)
    ELSE BuildFrom(containers, i + 1, Append(acc, RouteOf(containers[i])))

BuildRoutes(containers) == BuildFrom(containers, 1, <<>>)

\* routesChanged with the length test only.
routesChanged_LengthOnly(new, cur) == Len(new) # Len(cur)

\* routesChanged comparing every new route with the first current one.
routesChanged_FirstIndex(new, cur) ==
    IF Len(new) # Len(cur) THEN TRUE
    ELSE \E i \in 1..Len(new) : new[i] # cur[1]

\* routesChanged(newRoutes), with the global it reads as second argument.
routesChanged(new, cur) ==
    IF Len(new) # Len(cur) THEN TRUE
    ELSE \E i \in 1..Len(new) : new[i] # cur[i]

\* One expansion of the {{range .}} body of configTemplate: the redirect
\* server and the TLS server of one route.
ServerBlocks(route) ==
    << [listen |-> 80, server_name |-> route.Host,
        return |-> "301 https://$host$request_uri"],
       [listen |-> 443, server_name |-> route.Host,
        ssl_certificate |-> CertPath(route.Host, "fullchain.pem"),
        ssl_certificate_key |-> CertPath(route.Host, "privkey.pem"),
        proxy_pass |-> <<"http://">> \o route.Upstream] >>

\* tmpl.Execute(&buf, routes): the blocks of every route, in table order.
RECURSIVE Render(_)
Render(table) ==
    IF table = <<>> THEN <<>>
    ELSE ServerBlocks(Head(table)) \o Render(Tail(table))

\* exists(path)
exists(path) == files[path] # "none"

\* CertMissing with && for ||: only a host with neither file gets a pair.
CertMissing_Both(host) ==
    /\ ~exists(CertPath(host, "fullchain.pem"))
    /\ ~exists(CertPath(host, "privkey.pem"))

\* CertMissing without the test: every ensure runs the generator.
CertMissing_Always(host) == TRUE

\* The test of ensureCertificate: a generator run is needed.
CertMissing(host) ==
    \/ ~exists(CertPath(host, "fullchain.pem"))
    \/ ~exists(CertPath(host, "privkey.pem"))

\* The certificate directory after a successful openssl run for host.
SelfSigned(dir, host) ==
    [p \in Paths |-> IF p[2] = host THEN "self" ELSE dir[p]]

\* The certificate directory after a successful certbot run for host (a
\* domain that is no known host leaves the directory as it is).
Issued(dir, host) ==
    [p \in Paths |-> IF p[2] = host THEN "trusted" ELSE dir[p]]

\* ------------------------------------------------------------------- main

\* startNginx with the deferred stopNginx registered before the start: a
\* failed start unwinds into it.
startNginx_DeferredFirst ==
    /\ mainPc = "start"
    /\ \E ok \in BOOLEAN :
         IF ok THEN /\ mainPc' = "client"
                    /\ exit' = exit
               ELSE /\ mainPc' = "defer"
                    /\ exit' = "panic"
    /\ UNCHANGED <<docker, cancelled, stops, routesMutex, routes, files, conf>>
    /\ UNCHANGED cycleVars
    /\ UNCHANGED sweepVars

\* main.go:67-70: startNginx; a failure panics before anything is deferred.
startNginx ==
    /\ mainPc = "start"
    /\ \E ok \in BOOLEAN :
         IF ok THEN /\ mainPc' = "client"
                    /\ exit' = exit
               ELSE /\ mainPc' = "exited"
                    /\ exit' = "panic"
    /\ UNCHANGED <<docker, cancelled, stops, routesMutex, routes, files, conf>>
    /\ UNCHANGED cycleVars
    /\ UNCHANGED sweepVars

\* main.go:72-87: the docker client; a failure panics and the deferred
\* stopNginx runs. On success the signal handler is installed.
NewClient ==
    /\ mainPc = "client"
    /\ \E ok \in BOOLEAN :
         IF ok THEN /\ mainPc' = "init"
                    /\ exit' = exit
               ELSE /\ mainPc' = "defer"
                    /\ exit' = "panic"
    /\ UNCHANGED <<docker, cancelled, stops, routesMutex, routes, files, conf>>
    /\ UNCHANGED cycleVars
    /\ UNCHANGED sweepVars

\* main.go:84-87: a termination signal arrives and cancel() is called.
Signal ==
    /\ mainPc \in {"init", "cron", "loop"}
    /\ ~cancelled
    /\ cancelled' = TRUE
    /\ UNCHANGED <<docker, mainPc, exit, stops, routesMutex, routes, files, conf>>
    /\ UNCHANGED cycleVars
    /\ UNCHANGED sweepVars

\* Entering updateRoutes: nothing done yet, the state before it remembered.
Enter ==
    /\ cyc' = "list"
    /\ newRoutes' = <<>>
    /\ idx' = 0
    /\ err' = "nil"
    /\ routes0' = routes
    /\ conf0' = conf
    /\ ran' = {}

\* main.go:89: the first updateRoutes call.
FirstUpdate ==
    /\ mainPc = "init"
    /\ cyc = "idle"
    /\ Enter
    /\ UNCHANGED <<docker, cancelled, routesMutex, routes, files, conf>>
    /\ UNCHANGED mainVars
    /\ UNCHANGED sweepVars

\* main.go:93-104: cron.New and AddFunc (the cron is never started), the
\* goroutine that will call CertbotRun, the ticker.
SpawnSweep ==
    /\ mainPc = "cron"
    /\ mainPc' = "loop"
    /\ sweepPc' = "sleep"
    /\ UNCHANGED <<docker, exit, stops, cancelled, routesMutex, routes, files, conf>>
    /\ UNCHANGED <<sweepRoutes, sweepIdx>>
    /\ UNCHANGED cycleVars

\* main.go:110-111: the ticker fires and the select takes it (also when ctx
\* is done: select picks among the ready cases).
Tick ==
    /\ mainPc = "loop"
    /\ cyc = "idle"
    /\ Enter
    /\ UNCHANGED <<docker, cancelled, routesMutex, routes, files, conf>>
    /\ UNCHANGED mainVars
    /\ UNCHANGED sweepVars

\* main.go:108-109: ctx.Done() is taken; main returns into its deferred calls.
Done ==
    /\ mainPc = "loop"
    /\ cyc = "idle"
    /\ cancelled
    /\ mainPc' = "defer"
    /\ exit' = "zero"
    /\ UNCHANGED <<docker, cancelled, stops, routesMutex, routes, files, conf>>
    /\ UNCHANGED cycleVars
    /\ UNCHANGED sweepVars

\* main.go:70 (deferred), 234-239: stopNginx; its error is dropped. The
\* process ends, and with it the sweep goroutine.
stopNginx ==
    /\ mainPc = "defer"
    /\ mainPc' = "exited"
    /\ stops' = stops + 1
    /\ UNCHANGED <<docker, exit, cancelled, routesMutex, routes, files, conf>>
    /\ UNCHANGED cycleVars
    /\ UNCHANGED sweepVars

\* HandleResult with panic(err) for the Println: main unwinds into its
\* deferred calls.
HandleResult_Panics ==
    /\ cyc = "return"
    /\ cyc' = "idle"
    /\ mainPc' = IF err # "nil" THEN "defer"
                 ELSE IF mainPc = "init" THEN "cron" ELSE mainPc
    /\ exit' = IF err # "nil" THEN "panic" ELSE exit
    /\ newRoutes' = <<>>
    /\ idx' = 0
    /\ err' = "nil"
    /\ routes0' = <<>>
    /\ conf0' = NoFile
    /\ ran' = {}
    /\ UNCHANGED <<docker, stops, cancelled, routesMutex, routes, files, conf>>
    /\ UNCHANGED sweepVars

\* main.go:89-91 and 111-113: updateRoutes has returned; its error is
\* printed and main goes on.
HandleResult ==
    /\ cyc = "return"
    /\ cyc' = "idle"
    /\ mainPc' = IF mainPc = "init" THEN "cron" ELSE mainPc
    /\ newRoutes' = <<>>
    /\ idx' = 0
    /\ err' = "nil"
    /\ routes0' = <<>>
    /\ conf0' = NoFile
    /\ ran' = {}
    /\ UNCHANGED <<docker, exit, stops, cancelled, routesMutex, routes, files, conf>>
    /\ UNCHANGED sweepVars

\* ----------------------------------------------------------- updateRoutes

\* updateRoutes returns e; the deferred Unlock (if the lock was taken) runs.
Return(e) ==
    /\ cyc' = "return"
    /\ err' = e
    /\ routesMutex' = "free"

\* What dockerClient.ContainerList can answer: an error, or (only while ctx
\* is not cancelled) a container list.
ListResults ==
    {[failed |-> TRUE, containers |-> <<>>]}
    \cup (IF cancelled THEN {}
          ELSE {[failed |-> FALSE, containers |-> c] : c \in ContainerLists(docker)})

\* AfterList with the error of ContainerList dropped: the (empty) list is used.
AfterList_ErrorDropped(res) ==
    /\ newRoutes' = BuildRoutes(res.containers)
    /\ cyc' = "lock"
    /\ UNCHANGED <<err, routesMutex>>

\* main.go:127-145 on the answer res: return the error, or build newRoutes.
AfterList(res) ==
    IF res.failed
    THEN /\ Return("discovery")
         /\ UNCHANGED newRoutes
    ELSE /\ newRoutes' = BuildRoutes(res.containers)
         /\ cyc' = "lock"
         /\ UNCHANGED <<err, routesMutex>>

ContainerList ==
    /\ cyc = "list"
    /\ \E res \in ListResults :
         /\ AfterList(res)
         /\ ran' = {<<"list", IF res.failed THEN "error" ELSE "ok">>}
    /\ UNCHANGED <<docker, cancelled, routes, files, conf, idx, routes0, conf0>>
    /\ UNCHANGED mainVars
    /\ UNCHANGED sweepVars

\* main.go:147-152: Lock, then routesChanged; unchanged returns nil.
LockAndCompare ==
    /\ cyc = "lock"
    /\ routesMutex = "free"
    /\ IF routesChanged(newRoutes, routes)
       THEN /\ routesMutex' = "held"
            /\ cyc' = "assign"
            /\ UNCHANGED err
       ELSE Return("nil")
    /\ UNCHANGED <<docker, cancelled, routes, files, conf, newRoutes, idx, routes0, conf0, ran>>
    /\ UNCHANGED mainVars
    /\ UNCHANGED sweepVars

\* main.go:153: routes = newRoutes; then the loop of 156 starts.
Assign ==
    /\ cyc = "assign"
    /\ routes' = newRoutes
    /\ cyc' = IF Len(newRoutes) = 0 THEN "write" ELSE "ensure"
    /\ idx' = 1
    /\ UNCHANGED <<docker, cancelled, routesMutex, files, conf, newRoutes, err, routes0, conf0, ran>>
    /\ UNCHANGED mainVars
    /\ UNCHANGED sweepVars

\* What an openssl run for host can leave behind: success writes both
\* files; a failed run leaves the directory alone or has written the key only.
OpensslResults(host) ==
    { [ok |-> TRUE, dir |-> SelfSigned(files, host)],
      [ok |-> FALSE, dir |-> files],
      [ok |-> FALSE,
       dir |-> [files EXCEPT ![CertPath(host, "privkey.pem")] = "self"]] }

\* ensureCertificate(host): the results it can have, and whether it ran openssl.
ensureCertificate(host) ==
    IF CertMissing(host)
    THEN {[ok |-> r.ok, dir |-> r.dir, openssl |-> TRUE] : r \in OpensslResults(host)}
    ELSE {[ok |-> TRUE, dir |-> files, openssl |-> FALSE]}

\* main.go:156-160: one iteration of the ensure loop; an error returns.
EnsureStep ==
    /\ cyc = "ensure"
    /\ LET host == routes[idx].Host IN
       \E r \in ensureCertificate(host) :
         /\ files' = r.dir
         /\ ran' = ran \cup {<<"ensure", host>>}
                       \cup (IF r.openssl THEN {<<"openssl", host>>} ELSE {})
         /\ IF ~r.ok
            THEN /\ Return("ensure")
                 /\ UNCHANGED idx
            ELSE /\ cyc' = IF idx = Len(routes) THEN "write" ELSE "ensure"
                 /\ idx' = IF idx = Len(routes) THEN idx ELSE idx + 1
                 /\ UNCHANGED <<err, routesMutex>>
    /\ UNCHANGED <<docker, cancelled, routes, conf, newRoutes, routes0, conf0>>
    /\ UNCHANGED mainVars
    /\ UNCHANGED sweepVars

Prefixes(text) == { SubSeq(text, 1, k) : k \in 0..(Len(text) - 1) }

\* writeConfig that appends the rendering to what the file holds.
writeConfig_Append ==
    LET text == conf.text \o Render(routes) IN
    {[ok |-> TRUE, file |-> [exists |-> TRUE, text |-> text]]}
    \cup {[ok |-> FALSE, file |-> conf]}

\* writeConfig(): the file it can leave. Success persists the rendered
\* text; on failure the file is untouched (open failed) or was truncated
\* and holds only part of the text (os.WriteFile truncates, then writes).
writeConfig ==
    LET text == Render(routes) IN
    {[ok |-> TRUE, file |-> [exists |-> TRUE, text |-> text]]}
    \cup {[ok |-> FALSE, file |-> conf]}
    \cup {[ok |-> FALSE, file |-> [exists |-> TRUE, text |-> t]] : t \in Prefixes(text)}

\* WriteStep that ignores the error of writeConfig and goes on to the reload.
WriteStep_ErrorIgnored ==
    /\ cyc = "write"
    /\ \E r \in writeConfig :
         /\ conf' = r.file
         /\ ran' = ran \cup {<<"write", "">>}
         /\ cyc' = "reload"
         /\ UNCHANGED <<err, routesMutex>>
    /\ UNCHANGED <<docker, cancelled, routes, files, newRoutes, idx, routes0, conf0>>
    /\ UNCHANGED mainVars
    /\ UNCHANGED sweepVars

\* main.go:162-164
WriteStep ==
    /\ cyc = "write"
    /\ \E r \in writeConfig :
         /\ conf' = r.file
         /\ ran' = ran \cup {<<"write", "">>}
         /\ IF r.ok
            THEN /\ cyc' = "reload"
                 /\ UNCHANGED <<err, routesMutex>>
            ELSE Return("write")
    /\ UNCHANGED <<docker, cancelled, routes, files, newRoutes, idx, routes0, conf0>>
    /\ UNCHANGED mainVars
    /\ UNCHANGED sweepVars

\* main.go:166-168: reloadNginx ("nginx -s reload" exits 0 or not).
reloadNginx ==
    /\ cyc = "reload"
    /\ ran' = ran \cup {<<"reload", "">>}
    /\ \E ok \in BOOLEAN :
         IF ok
         THEN /\ cyc' = "certbot"
              /\ UNCHANGED <<err, routesMutex>>
         ELSE Return("reload")
    /\ UNCHANGED <<docker, cancelled, routes, files, conf, newRoutes, idx, routes0, conf0>>
    /\ UNCHANGED mainVars
    /\ UNCHANGED sweepVars

\* main.go:171, 242-246: certbotRun called by updateRoutes; no routes is an error.
CycleCertbotRun ==
    /\ cyc = "certbot"
    /\ ran' = ran \cup {<<"certbotRun", "">>}
    /\ IF Len(routes) = 0
       THEN /\ Return("certbot")
            /\ UNCHANGED idx
       ELSE /\ cyc' = "exec"
            /\ idx' = 1
            /\ UNCHANGED <<err, routesMutex>>
    /\ UNCHANGED <<docker, cancelled, routes, files, conf, newRoutes, routes0, conf0>>
    /\ UNCHANGED mainVars
    /\ UNCHANGED sweepVars

\* main.go:247-253: the certbot subprocess for routes[idx] is started.
CycleCertbotExec ==
    /\ cyc = "exec"
    /\ cyc' = "wait"
    /\ ran' = ran \cup {<<"certbot", routes[idx].Host>>}
    /\ UNCHANGED <<docker, cancelled, routesMutex, routes, files, conf, newRoutes, idx,
                   err, routes0, conf0>>
    /\ UNCHANGED mainVars
    /\ UNCHANGED sweepVars

\* main.go:254-259: it exits; non-zero returns the error, zero goes on
\* with the next route or returns nil.
CycleCertbotExit ==
    /\ cyc = "wait"
    /\ \E ok \in BOOLEAN :
         IF ~ok
         THEN /\ Return("certbot")
              /\ UNCHANGED <<files, idx>>
         ELSE /\ files' = Issued(files, routes[idx].Host)
              /\ IF idx = Len(routes)
                 THEN /\ Return("nil")
                      /\ UNCHANGED idx
                 ELSE /\ cyc' = "exec"
                      /\ idx' = idx + 1
                      /\ UNCHANGED <<err, routesMutex>>
    /\ UNCHANGED <<docker, cancelled, routes, conf, newRoutes, routes0, conf0, ran>>
    /\ UNCHANGED mainVars
    /\ UNCHANGED sweepVars

\* -------------------------------------------------- the CertbotRun goroutine

Running == mainPc # "exited"

\* A Route read from memory that is not part of the table's array.
Stray == [Host |-> "?", Upstream |-> <<>>]

\* A slice header whose length n and array come from different tables.
Mixed(array, n) == [i \in 1..n |-> IF i <= Len(array) THEN array[i] ELSE Stray]

\* What an unsynchronised read of the three-word slice header `routes` can
\* yield while the assignment routes = new is being executed.
TornReads(old, new) ==
    {old, new, Mixed(new, Len(old)), Mixed(old, Len(new))}

\* What the goroutine reads as `routes` (it takes no lock).
RoutesRead ==
    IF cyc = "assign" THEN TornReads(routes, newRoutes) ELSE {routes}

SweepDone ==
    /\ sweepPc' = "done"
    /\ sweepRoutes' = <<>>
    /\ sweepIdx' = 0

\* main.go:99-100, 242-244: the timer fires, CertbotRun calls certbotRun,
\* which reads len(routes).
SweepStart ==
    /\ Running
    /\ sweepPc = "sleep"
    /\ \E table \in RoutesRead :
         IF Len(table) = 0
         THEN SweepDone
         ELSE /\ sweepPc' = "range"
              /\ UNCHANGED <<sweepRoutes, sweepIdx>>
    /\ UNCHANGED <<docker, cancelled, routesMutex, routes, files, conf>>
    /\ UNCHANGED mainVars
    /\ UNCHANGED cycleVars

\* main.go:246: `range routes` evaluates the slice header once.
SweepRange ==
    /\ Running
    /\ sweepPc = "range"
    /\ \E table \in RoutesRead :
         IF Len(table) = 0
         THEN SweepDone
         ELSE /\ sweepPc' = "exec"
              /\ sweepRoutes' = table
              /\ sweepIdx' = 1
    /\ UNCHANGED <<docker, cancelled, routesMutex, routes, files, conf>>
    /\ UNCHANGED mainVars
    /\ UNCHANGED cycleVars

\* main.go:247-253: the certbot subprocess for the current element is started.
SweepExec ==
    /\ Running
    /\ sweepPc = "exec"
    /\ sweepPc' = "wait"
    /\ UNCHANGED <<sweepRoutes, sweepIdx>>
    /\ UNCHANGED <<docker, cancelled, routesMutex, routes, files, conf>>
    /\ UNCHANGED mainVars
    /\ UNCHANGED cycleVars

\* Reading an element outside the array can also fault; the runtime then
\* kills the process without running main's deferred calls.
SweepFault ==
    /\ Running
    /\ sweepPc = "exec"
    /\ sweepRoutes[sweepIdx] = Stray
    /\ mainPc' = "exited"
    /\ exit' = "fault"
    /\ UNCHANGED <<docker, stops, cancelled, routesMutex, routes, files, conf>>
    /\ UNCHANGED sweepVars
    /\ UNCHANGED cycleVars

\* main.go:254-259: the subprocess exits; non-zero ends the sweep.
SweepExit ==
    /\ Running
    /\ sweepPc = "wait"
    /\ \E ok \in BOOLEAN :
         IF ~ok
         THEN /\ SweepDone
              /\ UNCHANGED files
         ELSE /\ files' = Issued(files, sweepRoutes[sweepIdx].Host)
              /\ IF sweepIdx = Len(sweepRoutes)
                 THEN SweepDone
                 ELSE /\ sweepPc' = "exec"
                      /\ sweepIdx' = sweepIdx + 1
                      /\ UNCHANGED sweepRoutes
    /\ UNCHANGED <<docker, cancelled, routesMutex, routes, conf>>
    /\ UNCHANGED mainVars
    /\ UNCHANGED cycleVars

\* ------------------------------------------------------------ specification

MainStep ==
    \/ startNginx
    \/ NewClient
    \/ FirstUpdate
    \/ SpawnSweep
    \/ Tick
    \/ Done
    \/ stopNginx
    \/ HandleResult

CycleStep ==
    \/ ContainerList
    \/ LockAndCompare
    \/ Assign
    \/ EnsureStep
    \/ WriteStep
    \/ reloadNginx
    \/ CycleCertbotRun
    \/ CycleCertbotExec
    \/ CycleCertbotExit

SweepStep ==
    \/ SweepStart
    \/ SweepRange
    \/ SweepExec
    \/ SweepFault
    \/ SweepExit

Next ==
    \/ startNginx
    \/ NewClient
    \/ Signal
    \/ FirstUpdate
    \/ SpawnSweep
    \/ Tick
    \/ Done
    \/ stopNginx
    \/ HandleResult
    \/ ContainerList
    \/ LockAndCompare
    \/ Assign
    \/ EnsureStep
    \/ WriteStep
    \/ reloadNginx
    \/ CycleCertbotRun
    \/ CycleCertbotExec
    \/ CycleCertbotExit
    \/ SweepStart
    \/ SweepRange
    \/ SweepExec
    \/ SweepFault
    \/ SweepExit

Spec == Init /\ [][Next]_vars

\* The program under the scheduling the runtime gives it: main, the cycle it
\* runs and the goroutine each keep taking steps (the ticker keeps firing,
\* subprocesses exit); signals and failures are up to the environment.
Fairness ==
    /\ WF_vars(MainStep)
    /\ WF_vars(CycleStep)
    /\ WF_vars(SweepStep)

FairSpec == Init /\ [][Next]_vars /\ Fairness

\* ------------------------------------------------------------------ claims

\* What the current updateRoutes call has done besides listing containers.
SideEffects == { e \in ran : e[1] # "list" }

Errored == cyc = "return" /\ err # "nil"

\* C1: a cycle that fails at the certificate-ensure, write or reload step
\* leaves the route table as it was before the cycle.
C1_FailedCycleKeepsTable ==
    (cyc = "return" /\ err \in {"ensure", "write", "reload"}) => routes = routes0

TableT == <<RouteOf(Web1)>>

\* C2: if the process keeps running, from some point on every discovery
\* call yields the table T and from some point on no ensure, write or reload
\* step fails, then eventually the config file holds render(T).
C2_StaleRoutesNeverLinger ==
    ( /\ [](Sched \in {"Starting", "Running"} /\ ~cancelled)
      /\ <>[][ContainerList => (cyc' = "lock" /\ newRoutes' = TableT)]_vars
      /\ <>[][(EnsureStep \/ WriteStep \/ reloadNginx) => cyc' # "return"]_vars )
    => <>(conf = [exists |-> TRUE, text |-> Render(TableT)])

\* C3: a cycle whose discovered table equals the current route table gets no
\* further than the comparison: it runs no certificate subprocess, writes no
\* config, reloads nothing, runs no certbot, leaves the table unchanged and
\* returns nil.
C3_UnchangedTableNoEffects ==
    (<<"list", "ok">> \in ran /\ newRoutes = routes0)
    => /\ cyc \in {"lock", "return"}
       /\ err = "nil"
       /\ SideEffects = {}
       /\ routes = routes0
       /\ conf = conf0

C3_Witness ==
    /\ cyc = "return"
    /\ <<"list", "ok">> \in ran
    /\ newRoutes = routes0
    /\ Len(routes0) = 2

\* The certificate files a config text refers to.
ReferencedPaths(text) ==
    UNION { {text[i].ssl_certificate, text[i].ssl_certificate_key} :
            i \in { j \in DOMAIN text : text[j].listen = 443 } }

\* C4: whenever a cycle is about to render and write the config, the key and
\* full-chain files of every host of the table exist, and so do the files
\* every written config refers to.
C4_CertsExistAtRender ==
    /\ cyc = "write" => \A p \in ReferencedPaths(Render(routes)) : exists(p)
    /\ \A p \in ReferencedPaths(conf.text) : exists(p)

C4_Witness ==
    /\ cyc = "reload"
    /\ conf.text = Render(routes)
    /\ Len(routes) = 2
    /\ <<"openssl", HostB>> \in ran

\* C5: when ContainerList fails, updateRoutes returns the error at once:
\* route table and config file are as before the cycle and nothing was run.
C5_DiscoveryFailureSkipsCycle ==
    <<"list", "error">> \in ran
    => /\ cyc = "return"
       /\ err = "discovery"
       /\ routes = routes0
       /\ conf = conf0
       /\ SideEffects = {}

C5_Witness ==
    /\ <<"list", "error">> \in ran
    /\ cyc = "return"
    /\ Len(routes) > 0
    /\ conf.exists

\* C6: no two routes of the route table share a host.
C6_HostsUnique ==
    \A i, j \in DOMAIN routes : i # j => routes[i].Host # routes[j].Host

\* C7: at most one certbot run is in progress at any time.
C7_OneIssuanceAtATime ==
    ~(cyc = "wait" /\ sweepPc = "wait")

\* C8: a certificate error for one host does not keep the other hosts from
\* being handled: a cycle that ends with an ensure error has called
\* ensureCertificate for every host of the table, and one that ends with a
\* certbot error on a non-empty table has run certbot for every host.
C8_CertErrorIsPerHost ==
    /\ (cyc = "return" /\ err = "ensure")
       => \A i \in DOMAIN routes : <<"ensure", routes[i].Host>> \in ran
    /\ (cyc = "return" /\ err = "certbot" /\ Len(routes) > 0)
       => \A i \in DOMAIN routes : <<"certbot", routes[i].Host>> \in ran

\* C9: while the scheduler stays Running and no signal arrives, certbotRun
\* is called again and again.
C9_SweepRecurs ==
    <>[](Sched = "Running" /\ ~cancelled) => []<><<SweepStart \/ CycleCertbotRun>>_vars

C11_StoppedAfterOneStop ==
    (cancelled /\ Sched = "Stopped") => stops = 1

\* main() has ended through the panic of a failed startNginx.
StartAborted == mainPc = "exited" /\ exit = "panic" /\ stops = 0

\* Nothing of the reconciliation has happened.
Untouched ==
    /\ routes = <<>>
    /\ conf = NoFile
    /\ cyc = "idle"
    /\ ran = {}
    /\ sweepPc = "none"
    /\ routesMutex = "free"

\* C12: from Starting the scheduler either goes on (nginx started) or, when
\* startNginx fails, is Stopped at once with a failure outcome and nothing
\* discovered, written, reloaded or swept; and nothing happens afterwards.
C12_StartFailureIsFatal ==
    [][ /\ mainPc = "start" => (mainPc' = "client" \/ (StartAborted' /\ Untouched'))
        /\ ~StartAborted ]_vars

C12_Witness == StartAborted /\ Untouched


\* The certificate state of a host in a certificate directory: absent while a
\* file of the pair is missing, trusted when both are CA-issued, else self-signed.
CertState(dir, host) ==
    IF \E f \in CertFiles : dir[CertPath(host, f)] = "none" THEN "absent"
    ELSE IF \A f \in CertFiles : dir[CertPath(host, f)] = "trusted" THEN "trusted"
    ELSE "self-signed"

CertRank(state) ==
    CASE state = "absent" -> 0
      [] state = "self-signed" -> 1
      [] state = "trusted" -> 2

Rendered == [exists |-> TRUE, text |-> Render(routes)]

\* Every host of the table has its certificate pair (what a successful ensure leaves).
AllEnsured(dir) ==
    \A i \in 1..Len(routes) : CertState(dir, routes[i].Host) # "absent"

\* What the current cycle did, in the order the code allows.
CycleOrder ==
    /\ <<"reload", "">> \in ran
       => <<"write", "">> \in ran /\ conf = Rendered /\ err # "write"
    /\ <<"write", "">> \in ran
       => /\ \A i \in 1..Len(routes) : <<"ensure", routes[i].Host>> \in ran
          /\ AllEnsured(files)
          /\ err # "ensure"
    /\ err = "ensure" => ran \cap {<<"write", "">>, <<"reload", "">>, <<"certbotRun", "">>} = {}
    /\ err = "write" => ran \cap {<<"reload", "">>, <<"certbotRun", "">>} = {}
    /\ err = "reload" => <<"certbotRun", "">> \notin ran

\* How the cycle moves from one step of the pipeline to the next.
CycleAdvance ==
    /\ (cyc' = "write" /\ cyc # "write")
       => cyc \in {"assign", "ensure"} /\ AllEnsured(files)' /\ err' = "nil"
    /\ (cyc' = "reload" /\ cyc # "reload")
       => cyc = "write" /\ conf' = Rendered' /\ err' = "nil"
    /\ (cyc' = "certbot" /\ cyc # "certbot") => cyc = "reload" /\ err' = "nil"
    /\ <<"write", "">> \in (ran' \ ran) => cyc = "write"
    /\ <<"reload", "">> \in (ran' \ ran) => cyc = "reload"
    /\ (err' # "nil" /\ err = "nil") => cyc' = "return"
    /\ cyc = "return" => cyc' \in {"return", "idle"} /\ ran' \subseteq ran

\* C14: in a cycle a reload happens only after that cycle's successful write
\* (the file holds the full rendering of the table), a write only after every
\* host of the table was ensured successfully, and a failed ensure, write or
\* reload takes the cycle straight to its return: no later step runs, so a
\* failed write is never followed by a reload.
C14_PipelineOrder == []CycleOrder /\ [][CycleAdvance]_vars

C14_Witness ==
    /\ cyc = "return"
    /\ err = "write"
    /\ <<"write", "">> \in ran
    /\ conf # Rendered
    /\ Len(routes) > 0


\* The goroutine's CertbotRun evaluates `routes` in this step.
SweepReadsTable == SweepStart \/ SweepRange

\* C15: the sweep reads the route table only while no cycle holds the
\* table's mutex, hence never while a cycle is replacing the table.
C15_SweepReadsUnderMutex ==
    [][SweepReadsTable => (routesMutex = "free" /\ cyc # "assign")]_vars


\* A subprocess or the config write of the current cycle is under way.
CycleWorking == cyc \in {"ensure", "write", "reload", "certbot", "exec", "wait"}

\* C16: the route-table mutex is held only for the comparison and the
\* replacement of the table, never while the cycle's generator, config write,
\* reload or certbot runs.
C16_MutexOnlyForSwap == routesMutex = "held" => ~CycleWorking


\* The current cycle has written the config file without error.
WriteSucceeded == <<"write", "">> \in ran /\ err # "write"

\* C17: a cycle's successful write leaves exactly the rendering of the whole
\* table that this cycle committed (the discovered candidate, different from
\* the table at the cycle's start); from then on the file equals the rendering
\* of the current table in every step that does not replace the table, the
\* file changing only in the write step of a cycle that has replaced it.
C17_ConfigIsRenderOfTable ==
    /\ [](WriteSucceeded
          => conf = Rendered /\ routes = newRoutes /\ routes # routes0)
    /\ [][ /\ (conf = Rendered /\ cyc # "write")
              => (conf' = Rendered' \/ routes' # routes)
           /\ conf' # conf
              => /\ cyc = "write"
                 /\ routes = newRoutes
                 /\ routes # routes0
                 /\ (conf' = Rendered \/ err' = "write")
         ]_vars

C17_Witness ==
    /\ WriteSucceeded
    /\ cyc = "return"
    /\ Len(routes) > 0
    /\ conf0.exists
    /\ conf0.text # <<>>
    /\ conf = Rendered


\* C18: certbotRun is never entered with an empty route table, neither by a
\* cycle nor by the goroutine, and a cycle that has written and reloaded the
\* config of an empty table returns without error.
C18_NoAcquireOnEmptyTable ==
    /\ (cyc = "certbot" \/ <<"certbotRun", "">> \in ran) => Len(routes) > 0
    /\ (cyc = "return" /\ Len(routes) = 0 /\ <<"reload", "">> \in ran /\ err # "reload")
       => err = "nil"


\* ---------------------------------------------- routesChanged on all tables

\* Every sequence of at most n elements of S.
SeqsUpTo(S, n) == UNION { [1..k -> S] : k \in 0..n }

\* Routes to compare: two hosts, two upstreams.
RouteSet ==
    { [Host |-> h, Upstream |-> u] :
        h \in Hosts, u \in {TrimPrefix(NameWeb1, "/"), TrimPrefix(NameWeb2, "/")} }

\* A cycle that has built newRoutes and is about to lock and compare, for
\* every current and every candidate table (the current table is nil or was
\* assigned by an earlier cycle, whose later steps may have failed).
DiffInit ==
    /\ docker = {}
    /\ mainPc = "loop"
    /\ exit = "none"
    /\ cancelled = FALSE
    /\ stops = 0
    /\ routesMutex = "free"
    /\ routes \in SeqsUpTo(RouteSet, MaxContainers)
    /\ files = NoCerts
    /\ conf = NoFile
    /\ cyc = "lock"
    /\ newRoutes \in SeqsUpTo(RouteSet, MaxContainers)
    /\ idx = 0
    /\ err = "nil"
    /\ routes0 = routes
    /\ conf0 = conf
    /\ ran = {<<"list", "ok">>}
    /\ sweepPc = "sleep"
    /\ sweepRoutes = <<>>
    /\ sweepIdx = 0

DiffSpec == DiffInit /\ [][LockAndCompare]_vars

\* Same length and, position by position, the same host and the same upstream.
SameTable(new, cur) ==
    /\ Len(new) = Len(cur)
    /\ \A i \in 1..Len(new) :
         new[i].Host = cur[i].Host /\ new[i].Upstream = cur[i].Upstream

\* C19: the comparison reports "unchanged" (the cycle returns nil at once)
\* exactly when the candidate and the current table have the same length and
\* equal routes position by position; otherwise it goes on to the assignment.
C19_UnchangedIffSameTable ==
    cyc # "lock"
    => /\ cyc \in {"assign", "return"}
       /\ (cyc = "return") <=> SameTable(newRoutes, routes)
       /\ cyc = "return" => err = "nil"

\* A reordered table has been reported as changed.
C19_Witness ==
    /\ cyc = "assign"
    /\ Len(routes) = 2
    /\ routes[1] # routes[2]
    /\ newRoutes = <<routes[2], routes[1]>>


\* ------------------------------------------- the table built from any list

\* A name with two leading slashes.
NameSlashes == <<"/", "/", "w">>

Slashed == [Names |-> <<NameSlashes>>, Labels |-> HostLabel(HostB)]

ContainerSet == {Web1, Web2, Web3, Nameless, Unlabelled, EmptyLabel, Slashed}

\* A cycle about to call ContainerList, which can answer with any one list.
BuildInit ==
    /\ docker \in { {c} : c \in SeqsUpTo(ContainerSet, MaxContainers) }
    /\ mainPc = "loop"
    /\ exit = "none"
    /\ cancelled = FALSE
    /\ stops = 0
    /\ routesMutex = "free"
    /\ routes = <<>>
    /\ files = NoCerts
    /\ conf = NoFile
    /\ cyc = "list"
    /\ newRoutes = <<>>
    /\ idx = 0
    /\ err = "nil"
    /\ routes0 = routes
    /\ conf0 = conf
    /\ ran = {}
    /\ sweepPc = "sleep"
    /\ sweepRoutes = <<>>
    /\ sweepIdx = 0

BuildSpec == BuildInit /\ [][ContainerList]_vars

\* The positions of the containers that have a name and a non-empty label.
Routable(containers) ==
    { i \in 1..Len(containers) :
        /\ containers[i].Names # <<>>
        /\ "reprox.host" \in DOMAIN containers[i].Labels
        /\ containers[i].Labels["reprox.host"] # "" }

\* table holds one route per routable container, in the order of the list.
TableOf(containers, table) ==
    LET keep == Routable(containers) IN
    /\ Len(table) = Cardinality(keep)
    /\ \A i \in keep :
         LET route == table[Cardinality({ j \in keep : j <= i })]
             name == containers[i].Names[1]
         IN  /\ route.Host = containers[i].Labels["reprox.host"]
             /\ route.Upstream = IF name # <<>> /\ Head(name) = "/"
                                 THEN SubSeq(name, 2, Len(name))
                                 ELSE name

\* C20: whatever list the discovery returns, the candidate table holds, in
\* the order of the list, one route per container with a name and a non-empty
\* reprox.host label: the label as host, the first name less one leading "/"
\* as upstream; the other containers give no route.
C20_TableFromDiscovery ==
    cyc = "lock" => \A c \in docker : TableOf(c, newRoutes)

\* A list with a skipped container and a doubly slashed name has been built.
C20_Witness ==
    /\ cyc = "lock"
    /\ docker = {<<EmptyLabel, Slashed>>}
    /\ newRoutes = <<[Host |-> HostB, Upstream |-> <<"/", "w">>]>>

====
